---------------------------- MODULE Spec2Model ----------------------------
(***************************************************************************)
(* Hall sensor RPM counter (hall-sensor-rpm-with-display.ino), built for   *)
(* the Arduino UNO (AVR): int and short are 16 bits, long is a two's       *)
(* complement word, float and double are IEEE single precision.           *)
(*                                                                         *)
(* Two execution contexts share the timestamp ring: the falling-edge      *)
(* interrupt rpmInterrupt() and the main loop() that calls calculateRPM(), *)
(* re-renders the display bitmaps when the RPM changed and strobes one     *)
(* digit per pass with DisplayDigits().                                    *)
(***************************************************************************)
EXTENDS Integers, Sequences, FiniteSets, TLC

(***************************************************************************)
(* Program constants.                                                      *)
(***************************************************************************)
MAX_STAMP_AGE == 6000

MAX_STAMPS == 5

DisplaySize == 4

ByteRange == 256

INT_MAX == 32767

INT_MIN == -32768

(***************************************************************************)
(* Width of the millisecond counter and of (unsigned) long.  The target's  *)
(* width is 32; the model keeps the same modular arithmetic on a narrower  *)
(* word so that every intermediate value fits the model checker's         *)
(* integers.                                                               *)
(* Values below 2^(ClockBits-1) behave exactly as on the target.           *)
(***************************************************************************)
ClockBits == 29

Modulus == 2^ClockBits

HalfModulus == 2^(ClockBits - 1)

Slots == 0 .. (MAX_STAMPS - 1)

(***************************************************************************)
(* Characters are their ASCII codes; a C string is the sequence of its     *)
(* characters without the terminating NUL.                                 *)
(***************************************************************************)
Ch0 == 48

ChMinus == 45

\* unsigned char CharBitMap[]: key, bitmap, key, bitmap, ..., 0, 0
CharBitMap ==
  << 48, 192,   49, 249,   50, 164,   51, 176,   52, 153,
     53, 146,   54, 130,   55, 248,   56, 128,   57, 144,
     65, 136,   98, 131,   67, 198,  100, 161,   69, 134,
     70, 142,   80, 140,   45, 191,   99, 167,   32, 255,
      0,   0 >>

\* The inner while loop of SetupDigits, from table offset k (1-based):
\* stops at the 0 key with the initial value i = 0, or at the first key
\* equal to the character with the byte that follows it.
RECURSIVE FindBitmap(_, _)
FindBitmap(c, k) ==
  IF CharBitMap[k] = 0 THEN 0
  ELSE IF CharBitMap[k] = c THEN CharBitMap[k + 1]
  ELSE FindBitmap(c, k + 2)

LookupBitmap(c) == FindBitmap(c, 1)

\* The bytes SetupDigits stores through dispBM, one per character of s, in
\* order; the store is not bounded by the size of DisplayBM.
SetupDigitsBytes(s) == [k \in 1 .. Len(s) |-> LookupBitmap(s[k])]

\* DisplayBM after SetupDigits(s): the first DisplaySize bytes stored land
\* in DisplayBM[0..3]; positions the string does not reach keep their value.
SetupDigits(s, bm) ==
  [k \in 0 .. (DisplaySize - 1) |->
     IF k + 1 <= Len(s) THEN SetupDigitsBytes(s)[k + 1] ELSE bm[k]]

\* Bytes SetupDigits stores past the end of DisplayBM.
SetupDigitsOverrun(s) ==
  IF Len(s) > DisplaySize THEN Len(s) - DisplaySize ELSE 0

\* sizeof(unsigned long), the bytes of one slot of timestamps[]
LongBytes == 4

\* What a build has placed behind DisplayBM, where the stores of SetupDigits
\* past DisplayBM[3] land; the stores are undefined.  "stamps": the globals
\* in the order declared, timestamps[] next.  "names": the globals in the
\* order of their names, __curCharacter next and curTimestampPos after it.
\* "character": __curCharacter next and behind it nothing the program
\* reads.  "none": nothing the program reads.
Layouts == {"none", "character", "stamps", "names"}

\* The layout of a build shows at its first store past DisplayBM[3].
LayoutUnseen == "unseen"

\* The object v of the program after the byte b is stored over its byte k,
\* counted from 0; byte 0 is the least significant one.
StoreByte(v, k, b) ==
  LET weight == ByteRange ^ k
      old    == (v \div weight) % ByteRange
  IN v - old * weight + b * weight

\* The short int held by the two bytes of the unsigned value u.
ToShort(u) ==
  IF u >= (ByteRange * ByteRange) \div 2 THEN u - ByteRange * ByteRange
  ELSE u

\* The two bytes of the short int v, as an unsigned value.
ShortBytes(v) == v % (ByteRange * ByteRange)

\* timestamps[] after the store of the byte b at offset k behind
\* DisplayBM[3]: with timestamps[] right behind DisplayBM it is byte
\* k % 4 of timestamps[k / 4].
StoreBehindStamps(lay, stamps, k, b) ==
  IF lay = "stamps" /\ k \div LongBytes \in Slots
  THEN [stamps EXCEPT
          ![k \div LongBytes] = StoreByte(@, k % LongBytes, b) % Modulus]
  ELSE stamps

\* __curCharacter after that store: the byte at offset 0 on the builds that
\* place it right behind DisplayBM.
StoreBehindCharacter(lay, c, k, b) ==
  IF lay \in {"character", "names"} /\ k = 0 THEN b ELSE c

\* curTimestampPos after that store: the bytes at offsets 1 and 2 on the
\* builds that place the globals in the order of their names.
\* The strings rendered have at most 7 characters, so no store reaches
\* past offset 2.
StoreBehindPos(lay, p, k, b) ==
  IF lay = "names" /\ k \in {1, 2}
  THEN ToShort(StoreByte(ShortBytes(p), k - 1, b))
  ELSE p

(***************************************************************************)
(* sprintf(displayString, "%.4d", rpm): the decimal digits of |rpm|, most  *)
(* significant first, padded with '0' to at least 4 digits, preceded by    *)
(* '-' when rpm is negative.                                               *)
(***************************************************************************)
RECURSIVE DecimalDigits(_)
DecimalDigits(n) ==
  IF n < 10 THEN << Ch0 + n >>
  ELSE Append(DecimalDigits(n \div 10), Ch0 + (n % 10))

RECURSIVE ZeroPad(_, _)
ZeroPad(s, width) ==
  IF Len(s) >= width THEN s ELSE ZeroPad(<< Ch0 >> \o s, width)

SprintfD4Unpadded(v) ==
  IF v < 0 THEN << ChMinus >> \o DecimalDigits(-v) ELSE DecimalDigits(v)

SprintfD4(v) ==
  IF v < 0 THEN << ChMinus >> \o ZeroPad(DecimalDigits(-v), DisplaySize)
  ELSE ZeroPad(DecimalDigits(v), DisplaySize)

(***************************************************************************)
(* Single precision arithmetic.  A finite positive float is [m, e] with    *)
(* 2^23 <= m < 2^24 and value m * 2^e; operations round to nearest, ties   *)
(* to even.  Only non-negative values occur in calculateRPM.               *)
(***************************************************************************)
MantBits == 24

FZero == [kind |-> "zero", m |-> 0, e |-> 0]

FInf == [kind |-> "inf", m |-> 0, e |-> 0]

FNaN == [kind |-> "nan", m |-> 0, e |-> 0]

FNum(m, e) == [kind |-> "num", m |-> m, e |-> e]

RECURSIVE BitLen(_)
BitLen(n) == IF n = 0 THEN 0 ELSE 1 + BitLen(n \div 2)

\* The float nearest to q * 2^e (q > 0); sticky tells that the exact value
\* lies strictly above q * 2^e and below (q + 1) * 2^e.
FRound(q, e, sticky) ==
  LET bits == BitLen(q) IN
  IF bits <= MantBits
  THEN FNum(q * 2^(MantBits - bits), e - (MantBits - bits))
  ELSE LET shift == bits - MantBits
           base  == q \div 2^shift
           rem   == q % 2^shift
           half  == 2^(shift - 1)
           up    == \/ rem > half
                    \/ rem = half /\ (sticky \/ base % 2 = 1)
           m0    == IF up THEN base + 1 ELSE base
       IN IF m0 = 2^MantBits THEN FNum(2^(MantBits - 1), e + shift + 1)
          ELSE FNum(m0, e + shift)

\* Conversion of a non-negative integer to float.
IntToFloat(n) == IF n = 0 THEN FZero ELSE FRound(n, 0, FALSE)

\* 1000.0 and 60.0
F1000 == IntToFloat(1000)

Sixty == 60

\* Long division: k more quotient bits of r / d appended to q.
RECURSIVE DivBits(_, _, _, _)
DivBits(r, d, k, q) ==
  IF k = 0 THEN << q, r >>
  ELSE IF 2 * r >= d THEN DivBits(2 * r - d, d, k - 1, 2 * q + 1)
       ELSE DivBits(2 * r, d, k - 1, 2 * q)

\* x / y for non-negative floats: a non-zero x over 0.0 is +infinity, 0.0
\* over 0.0 is not a number; otherwise the quotient of the mantissas is
\* taken to two bits more than a mantissa holds and rounded.
FDiv(x, y) ==
  IF x.kind = "nan" \/ y.kind = "nan" THEN FNaN
  ELSE IF x.kind = "inf" THEN (IF y.kind = "inf" THEN FNaN ELSE FInf)
  ELSE IF y.kind = "inf" THEN FZero
  ELSE IF y.kind = "zero" THEN (IF x.kind = "zero" THEN FNaN ELSE FInf)
  ELSE IF x.kind = "zero" THEN FZero
  ELSE LET qr == DivBits(x.m % y.m, y.m, MantBits + 2, x.m \div y.m)
       IN FRound(qr[1], x.e - y.e - (MantBits + 2), qr[2] # 0)

\* x * k for a small positive integer constant k.
FMulInt(x, k) ==
  IF x.kind = "num" THEN FRound(x.m * k, x.e, FALSE) ELSE x

\* Truncation toward zero of a finite float that is below 2^MantBits.
FTrunc(x) ==
  IF x.kind = "zero" THEN 0
  ELSE IF -x.e > MantBits THEN 0
  ELSE x.m \div 2^(-x.e)

\* The low 16 bits of the integer part, read as a signed int, for a finite
\* float whose integer part does not fit an int.
WrapToInt(x) ==
  LET low16 == IF x.e >= 16 THEN 0
               ELSE IF x.e >= 0 THEN ((x.m % 65536) * 2^x.e) % 65536
               ELSE FTrunc(x) % 65536
  IN IF low16 > INT_MAX THEN low16 - 65536 ELSE low16

\* (int) of a non-negative float.  Converting infinity, a NaN or a value
\* that does not fit an int is undefined behaviour.  The builds convert to
\* a 32-bit integer and keep its low 16 bits: a finite value wraps, and
\* infinity or a NaN, converted to 0x80000000, gives 0.
FloatToIntOutcomes(x) ==
  IF x.kind = "zero" THEN {0}
  ELSE IF x.kind \in {"inf", "nan"} THEN {0}
  ELSE IF x.e >= 0 \/ FTrunc(x) > INT_MAX
       THEN {WrapToInt(x)}
       ELSE {FTrunc(x)}

(***************************************************************************)
(* calculateRPM: the age test, the scan for low / high / datapoints and    *)
(* the conversion to revolutions per minute.                               *)
(***************************************************************************)
\* (long)u for an unsigned long u
ToLong(u) == IF u >= HalfModulus THEN u - Modulus ELSE u

\* (unsigned long)v for a long v
ToULong(v) == v % Modulus

LongInRange(v) == -HalfModulus <= v /\ v < HalfModulus

tsDiffUnbounded(curTime, t) ==
  {IF curTime >= t THEN curTime - t ELSE t - curTime}

\* abs((long)curTime - (long)t) as the age test compares it with
\* MAX_STAMP_AGE.  abs is the macro ((x)>0?(x):-(x)).  A difference or a
\* negation that does not fit a long is undefined; the builds wrap both.
\* The wrapped difference w has the absolute value |w|, except the least
\* long, whose negation is itself: the builds without optimisation compare
\* it as the unsigned long tsDiff, half the range of the counter and stale;
\* the optimised builds, taking the result of abs for non-negative, compare
\* it as a long, a negative number and fresh.
tsDiffOutcomes(curTime, t) ==
  LET d == ToLong(curTime) - ToLong(t)
      w == ToLong(ToULong(d))
  IN IF w = -HalfModulus THEN {HalfModulus, -HalfModulus}
     ELSE {IF w > 0 THEN w ELSE -w}

IsFreshNoAgeLimit(diff) == TRUE

IsFreshDoubleAge(diff) == diff < 2 * MAX_STAMP_AGE

\* tsDiff < MAX_STAMP_AGE
IsFresh(diff) == diff < MAX_STAMP_AGE

ScanStart == [low |-> 0, high |-> 0, datapoints |-> 0]

\* One pass of the scan loop body for the slot value t, the age test
\* having come out as fresh.
ScanSlot(acc, t, fresh) ==
  IF fresh
  THEN [low        |-> IF acc.low = 0 \/ t <= acc.low THEN t ELSE acc.low,
        high       |-> IF t > acc.high THEN t ELSE acc.high,
        datapoints |-> acc.datapoints + 1]
  ELSE acc

\* The scan loop from slot i on; the set of results collects the outcomes
\* of undefined age arithmetic (a single result when there is none).
RECURSIVE ScanFrom(_, _, _, _)
ScanFrom(copy, curTime, i, acc) ==
  IF i = MAX_STAMPS THEN {acc}
  ELSE UNION { ScanFrom(copy, curTime, i + 1,
                        ScanSlot(acc, copy[i], IsFresh(diff)))
               : diff \in tsDiffOutcomes(curTime, copy[i]) }

ScanOutcomes(copy, curTime) == ScanFrom(copy, curTime, 0, ScanStart)

RevsOffByOne(datapoints) == datapoints

\* int revs = datapoints - 1
Revs(datapoints) == datapoints - 1

\* unsigned long timeDiff = abs(high - low), on unsigned operands
TimeDiff(sc) == (sc.high - sc.low) % Modulus

\* float rps = revs / (timeDiff / 1000.0);  rps * 60.0
RpmFloat(revs, timeDiff) ==
  FMulInt(FDiv(IntToFloat(revs), FDiv(IntToFloat(timeDiff), F1000)), Sixty)

\* datapoints > 1
EnoughDatapoints(datapoints) == datapoints > 1

\* The values calculateRPM can return for a scan result.
RpmOutcomes(sc) ==
  IF EnoughDatapoints(sc.datapoints)
  THEN FloatToIntOutcomes(RpmFloat(Revs(sc.datapoints), TimeDiff(sc)))
  ELSE {0}

\* The values calculateRPM can return for a copy of the ring and a clock
\* reading.
calculateRPM(copy, curTime) ==
  UNION { RpmOutcomes(sc) : sc \in ScanOutcomes(copy, curTime) }

(***************************************************************************)
(* The display strobe.                                                     *)
(***************************************************************************)
SelectCodeNoFourth(pos) ==
  CASE pos = 1 -> 1
    [] pos = 2 -> 2
    [] pos = 3 -> 4
    [] OTHER   -> 1

\* The switch of DisplayDigitBitmap: the byte shifted out after the bitmap.
SelectCode(pos) ==
  CASE pos = 1 -> 1
    [] pos = 2 -> 2
    [] pos = 3 -> 4
    [] pos = 4 -> 8
    [] OTHER   -> 1

\* __curCharacter % 4
CursorPosition(c) == c % DisplaySize

\* __curCharacter++ on a byte
NextCharacter(c) == (c + 1) % ByteRange

(***************************************************************************)
(* Bounds of the model.                                                    *)
(***************************************************************************)
\* edges delivered to rpmInterrupt in a behaviour
MaxEdges == 3

\* edges delivered to rpmInterrupt in a behaviour of the ring alone
MaxRingEdges == 7

\* passes of the loop in a behaviour of the whole program
MaxLoops == 2

\* edges delivered to rpmInterrupt while one string is rendered
MaxRenderEdges == 2

\* passes of the loop in a behaviour with the shaft at rest
MaxTicks == 260

\* last clock reading of a behaviour
MaxClock == 7000

\* the readings of millis() a behaviour observes: every second, and 5 ms
\* after one of them, which is the spacing of two edges of a fast shaft
ClockReadings ==
  { c \in 0 .. MaxClock : c % 1000 = 0 } \cup { c \in {5005} : c <= MaxClock }

(***************************************************************************)
(* State.                                                                  *)
(***************************************************************************)
VARIABLES
  clock,            \* millis()
  timestamps,       \* volatile unsigned long timestamps[MAX_STAMPS]
  curTimestampPos,  \* volatile short int curTimestampPos
  lastStamp,        \* volatile unsigned long lastStamp
  intsEnabled,      \* global interrupt enable (noInterrupts / interrupts)
  pc,               \* position of the main context
  curTime,          \* calculateRPM: curTime
  ts,               \* calculateRPM: ts[MAX_STAMPS]
  ci,               \* calculateRPM: i of the copy loop
  scan,             \* calculateRPM: low, high, datapoints
  rpm,              \* loop: rpm
  oldRpm,           \* int oldRpm
  displayString,    \* the string handed to SetupDigits
  DisplayBM,        \* unsigned char DisplayBM[4]
  overrun,          \* bytes stored past DisplayBM[3] by the last SetupDigits
  layout,           \* what the build has placed behind DisplayBM
  curCharacter,     \* byte __curCharacter
  emitted,          \* the bytes shifted out by the last DisplayDigits
  serialOut,        \* the values printed as "rpm: <value>" lines in
                    \* the current pass of the loop
  renders,          \* calls of SetupDigits made in the current pass
  ticks,            \* calls of DisplayDigits
  passes,           \* passes of the while loop begun: calls of calculateRPM
  edges,            \* calls of rpmInterrupt
  edgeTimes         \* the value of millis() at each call of rpmInterrupt,
                    \* oldest first

vars ==
  << clock, timestamps, curTimestampPos, lastStamp, intsEnabled, pc, curTime,
     ts, ci, scan, rpm, oldRpm, displayString, DisplayBM, overrun,
     layout, curCharacter, emitted, serialOut, renders, ticks, passes, edges,
     edgeTimes >>

ringVars == << timestamps, curTimestampPos, lastStamp, edges, edgeTimes >>

estimatorVars == << curTime, ts, ci, scan, rpm >>

displayVars ==
  << oldRpm, displayString, DisplayBM, overrun, layout, serialOut, renders >>

strobeVars == << curCharacter, emitted, ticks, passes >>

ZeroStamps == [i \in Slots |-> 0]

NoEmission == [index |-> 0, bm |-> 0, pos |-> 0, select |-> 0]

DashString == << ChMinus, ChMinus, ChMinus, ChMinus >>

\* Static initialisation, before setup() runs.
Init ==
  /\ clock = 0
  /\ timestamps = ZeroStamps
  /\ curTimestampPos = 0
  /\ lastStamp = 0
  /\ intsEnabled = TRUE
  /\ pc = "setup"
  /\ curTime = 0
  /\ ts = ZeroStamps
  /\ ci = 0
  /\ scan = ScanStart
  /\ rpm = 0
  /\ oldRpm = 0
  /\ displayString = << >>
  /\ DisplayBM = [k \in 0 .. (DisplaySize - 1) |-> 0]
  /\ overrun = 0
  /\ layout = LayoutUnseen
  /\ curCharacter = 0
  /\ emitted = NoEmission
  /\ serialOut = << >>
  /\ renders = 0
  /\ ticks = 0
  /\ passes = 0
  /\ edges = 0
  /\ edgeTimes = << >>

(***************************************************************************)
(* The interrupt context.                                                  *)
(***************************************************************************)
NextStampPosWrapsEarly(p) == IF p + 1 >= MAX_STAMPS - 1 THEN 0 ELSE p + 1

\* curTimestampPos++; if (curTimestampPos >= MAX_STAMPS) curTimestampPos = 0
NextStampPos(p) == IF p + 1 >= MAX_STAMPS THEN 0 ELSE p + 1

\* rpmInterrupt(): runs with interrupts masked, so millis() reads the same
\* value twice.  Attached by the first statement of setup(), so it can run
\* while the rest of setup() does; held off while the main context has
\* interrupts disabled.  With curTimestampPos outside 0 .. MAX_STAMPS - 1,
\* as a store past DisplayBM[3] can leave it, the store of line 73 is
\* outside timestamps[] and leaves the ring as it is.
rpmInterrupt(limit) ==
  /\ pc # "setup"
  /\ intsEnabled
  /\ edges < limit
  /\ timestamps' = IF curTimestampPos \in Slots
                   THEN [timestamps EXCEPT ![curTimestampPos] = clock]
                   ELSE timestamps
  /\ curTimestampPos' = NextStampPos(curTimestampPos)
  /\ lastStamp' = clock
  /\ edges' = edges + 1
  /\ edgeTimes' = Append(edgeTimes, clock)
  /\ UNCHANGED << clock, intsEnabled, pc >>
  /\ UNCHANGED << estimatorVars, displayVars, strobeVars >>

\* The timer interrupt that drives millis(); held off like every interrupt
\* while interrupts are disabled.
AdvanceClock ==
  /\ intsEnabled
  /\ \E c \in ClockReadings :
       /\ clock < c
       /\ clock' = c % Modulus
  /\ UNCHANGED << intsEnabled, pc >>
  /\ UNCHANGED << ringVars, estimatorVars, displayVars, strobeVars >>

(***************************************************************************)
(* The main context.                                                       *)
(***************************************************************************)
\* setup(): attachInterrupt(0, rpmInterrupt, FALLING), its first statement
AttachInterrupt ==
  /\ pc = "setup"
  /\ pc' = "begin"
  /\ UNCHANGED << clock, intsEnabled >>
  /\ UNCHANGED << ringVars, estimatorVars, displayVars, strobeVars >>

\* setup(): the statements after attachInterrupt, to SetupDigits("----")
Setup ==
  /\ pc = "begin"
  /\ displayString' = DashString
  /\ DisplayBM' = SetupDigits(DashString, DisplayBM)
  /\ overrun' = SetupDigitsOverrun(DashString)
  /\ pc' = "read"
  /\ UNCHANGED << clock, intsEnabled, oldRpm, layout, serialOut, renders >>
  /\ UNCHANGED << ringVars, estimatorVars, strobeVars >>

\* A pass of the while loop begins.  calculateRPM: unsigned long curTime =
\* millis()
ReadClock(limit) ==
  /\ pc = "read"
  /\ ticks < limit
  /\ curTime' = clock
  /\ serialOut' = << >>
  /\ renders' = 0
  /\ passes' = passes + 1
  /\ pc' = "lock"
  /\ UNCHANGED << clock, intsEnabled, ts, ci, scan, rpm >>
  /\ UNCHANGED << oldRpm, displayString, DisplayBM, overrun, layout >>
  /\ UNCHANGED << curCharacter, emitted, ticks >>
  /\ UNCHANGED ringVars

NoInterruptsLeavesEnabled == TRUE

\* the interrupt enable after noInterrupts()
NoInterrupts == FALSE

\* calculateRPM: noInterrupts(); memset(ts, 0, sizeof(ts))
DisableInterrupts ==
  /\ pc = "lock"
  /\ intsEnabled' = NoInterrupts
  /\ ts' = ZeroStamps
  /\ ci' = 0
  /\ pc' = "copy"
  /\ UNCHANGED << clock, curTime, scan, rpm >>
  /\ UNCHANGED << ringVars, displayVars, strobeVars >>

\* calculateRPM: ts[i] = timestamps[i], one pass of the copy loop
CopySlot ==
  /\ pc = "copy"
  /\ ts' = [ts EXCEPT ![ci] = timestamps[ci]]
  /\ ci' = ci + 1
  /\ pc' = IF ci + 1 < MAX_STAMPS THEN "copy" ELSE "scan"
  /\ UNCHANGED << clock, intsEnabled, curTime, scan, rpm >>
  /\ UNCHANGED << ringVars, displayVars, strobeVars >>

\* calculateRPM: the scan loop over the copy
ScanStamps ==
  /\ pc = "scan"
  /\ \E sc \in ScanOutcomes(ts, curTime) : scan' = sc
  /\ pc' = "unlock"
  /\ UNCHANGED << clock, intsEnabled, curTime, ts, ci, rpm >>
  /\ UNCHANGED << ringVars, displayVars, strobeVars >>

\* calculateRPM: interrupts(); the conversion to rpm; return, which ends
\* the life of the locals curTime, ts, i, low, high and datapoints
EnableInterrupts ==
  /\ pc = "unlock"
  /\ intsEnabled' = TRUE
  /\ \E r \in RpmOutcomes(scan) : rpm' = r
  /\ curTime' = 0
  /\ ts' = ZeroStamps
  /\ ci' = 0
  /\ scan' = ScanStart
  /\ pc' = "update"
  /\ UNCHANGED clock
  /\ UNCHANGED << ringVars, displayVars, strobeVars >>

RpmChangedAlways(new, old) == TRUE

\* loop: rpm != oldRpm
RpmChanged(new, old) == new # old

UpdateDisplayTicksOnChange ==
  /\ pc = "update"
  /\ IF RpmChanged(rpm, oldRpm)
     THEN /\ oldRpm' = rpm
          /\ serialOut' = Append(serialOut, rpm)
          /\ displayString' = SprintfD4(rpm)
          /\ DisplayBM' = SetupDigits(SprintfD4(rpm), DisplayBM)
          /\ overrun' = 0
          /\ renders' = renders + 1
          /\ IF SetupDigitsOverrun(SprintfD4(rpm)) > 0
             THEN /\ pc' = "store"
                  /\ IF layout = LayoutUnseen
                     THEN layout' \in Layouts
                     ELSE layout' = layout
             ELSE /\ pc' = "tick"
                  /\ layout' = layout
     ELSE /\ UNCHANGED displayVars
          /\ pc' = "read"
  /\ UNCHANGED << clock, intsEnabled >>
  /\ UNCHANGED << ringVars, estimatorVars, strobeVars >>

\* loop: the if statement that follows calculateRPM(), to the store of
\* DisplayBM[3] by SetupDigits.  Interrupts are enabled, but rpmInterrupt
\* names none of the objects these statements name, so an edge during them
\* has the effect of an edge before or after them.  The stores past
\* DisplayBM[3], which can hit what rpmInterrupt names, follow one by one.
UpdateDisplay ==
  /\ pc = "update"
  /\ IF RpmChanged(rpm, oldRpm)
     THEN /\ oldRpm' = rpm
          /\ serialOut' = Append(serialOut, rpm)
          /\ displayString' = SprintfD4(rpm)
          /\ DisplayBM' = SetupDigits(SprintfD4(rpm), DisplayBM)
          /\ overrun' = 0
          /\ renders' = renders + 1
          /\ IF SetupDigitsOverrun(SprintfD4(rpm)) > 0
             THEN /\ pc' = "store"
                  /\ IF layout = LayoutUnseen
                     THEN layout' \in Layouts
                     ELSE layout' = layout
             ELSE /\ pc' = "tick"
                  /\ layout' = layout
     ELSE /\ UNCHANGED displayVars
          /\ pc' = "tick"
  /\ UNCHANGED << clock, intsEnabled >>
  /\ UNCHANGED << ringVars, estimatorVars, strobeVars >>

\* SetupDigits: one store *dispBM++ = i past DisplayBM[3], for character
\* DisplaySize + overrun of the string, at offset overrun behind the array.
\* Interrupts are enabled between two stores.
OverrunStore ==
  /\ pc = "store"
  /\ overrun < SetupDigitsOverrun(displayString)
  /\ LET b == SetupDigitsBytes(displayString)[DisplaySize + overrun + 1]
     IN /\ timestamps' = StoreBehindStamps(layout, timestamps, overrun, b)
        /\ curCharacter' = StoreBehindCharacter(layout, curCharacter,
                                                overrun, b)
        /\ curTimestampPos' = StoreBehindPos(layout, curTimestampPos,
                                             overrun, b)
  /\ overrun' = overrun + 1
  /\ pc' = IF overrun + 1 < SetupDigitsOverrun(displayString)
           THEN "store" ELSE "tick"
  /\ UNCHANGED << clock, intsEnabled, lastStamp, edges, edgeTimes >>
  /\ UNCHANGED << oldRpm, displayString, DisplayBM, layout, serialOut,
                  renders >>
  /\ UNCHANGED << emitted, ticks, passes >>
  /\ UNCHANGED estimatorVars

\* DisplayDigits(): one digit per call; the pass of the while loop ends
\* with it, and with the pass the life of its local rpm
DisplayDigits ==
  /\ pc = "tick"
  /\ LET pos == DisplaySize - CursorPosition(curCharacter)
     IN emitted' = [index  |-> CursorPosition(curCharacter),
                    bm     |-> DisplayBM[CursorPosition(curCharacter)],
                    pos    |-> pos,
                    select |-> SelectCode(pos)]
  /\ curCharacter' = NextCharacter(curCharacter)
  /\ ticks' = ticks + 1
  /\ rpm' = 0
  /\ pc' = "read"
  /\ UNCHANGED << clock, intsEnabled, curTime, ts, ci, scan, passes >>
  /\ UNCHANGED << ringVars, displayVars >>

\* A direct call SetupDigits(displayString), as setup() makes it, to the
\* store of DisplayBM[3]; the stores past it follow one by one.
SetupDigitsCall ==
  /\ pc = "call"
  /\ DisplayBM' = SetupDigits(displayString, DisplayBM)
  /\ overrun' = 0
  /\ IF SetupDigitsOverrun(displayString) > 0
     THEN /\ pc' = "store"
          /\ IF layout = LayoutUnseen
             THEN layout' \in Layouts
             ELSE layout' = layout
     ELSE /\ pc' = "tick"
          /\ layout' = layout
  /\ UNCHANGED << clock, intsEnabled, oldRpm, displayString, serialOut,
                  renders >>
  /\ UNCHANGED << ringVars, estimatorVars, strobeVars >>

MainLoop(limit) ==
  \/ ReadClock(limit)
  \/ DisableInterrupts
  \/ CopySlot
  \/ ScanStamps
  \/ EnableInterrupts
  \/ UpdateDisplay
  \/ DisplayDigits

(***************************************************************************)
(* The whole program: interrupt, clock and main context interleaved.       *)
(***************************************************************************)
Next ==
  \/ AttachInterrupt
  \/ Setup
  \/ rpmInterrupt(MaxEdges)
  \/ AdvanceClock
  \/ MainLoop(MaxLoops)
  \/ OverrunStore

Spec == Init /\ [][Next]_vars

(***************************************************************************)
(* calculateRPM on its own: one pass of the loop from a ring and a clock   *)
(* reading drawn from samples, with no edge and no clock tick during the   *)
(* pass.  A ring is a rotation of a chronologically ordered window; 0 is   *)
(* both the startup fill and a possible timestamp, and a stamp above the   *)
(* clock reading is one taken before the counter wrapped.  The samples     *)
(* 5000 and 5005 are two edges of a fast shaft.  At the clock reading      *)
(* HalfModulus the stamp 0 is half the range of the counter old, where     *)
(* the age arithmetic leaves the range of a long.                          *)
(***************************************************************************)
TimeSamples ==
  {0, 1000, 1500, 1720, 2000, 2500, 3000, 5000, 5005, Modulus - 1000}

NowSamples == {1500, 3000, 5000, 9000, 11000, HalfModulus}

OrderedWindows ==
  { f \in [Slots -> TimeSamples] :
      \A i \in 0 .. (MAX_STAMPS - 2) : f[i] <= f[i + 1] }

Rotate(f, r) == [i \in Slots |-> f[(i + r) % MAX_STAMPS]]

InitCompute ==
  /\ clock \in NowSamples
  /\ \E f \in OrderedWindows, r \in Slots :
       /\ timestamps = Rotate(f, r)
       /\ curTimestampPos = (MAX_STAMPS - r) % MAX_STAMPS
       /\ lastStamp = f[MAX_STAMPS - 1]
  /\ intsEnabled = TRUE
  /\ pc = "read"
  /\ curTime = 0
  /\ ts = ZeroStamps
  /\ ci = 0
  /\ scan = ScanStart
  /\ rpm = 0
  /\ oldRpm = 0
  /\ displayString = DashString
  /\ DisplayBM = SetupDigits(DashString, [k \in 0 .. (DisplaySize - 1) |-> 0])
  /\ overrun = 0
  /\ layout = LayoutUnseen
  /\ curCharacter = 0
  /\ emitted = NoEmission
  /\ serialOut = << >>
  /\ renders = 0
  /\ ticks = 0
  /\ passes = 0
  /\ edges = 0
  /\ edgeTimes = << >>

NextCompute ==
  \/ MainLoop(1)
  \/ OverrunStore

SpecCompute == InitCompute /\ [][NextCompute]_vars

(***************************************************************************)
(* The render step on its own: the if statement of loop for a computed     *)
(* rpm drawn from a range, and SetupDigits for strings drawn from samples, *)
(* at the clock reading 1000, with edges arriving at any point of it.      *)
(***************************************************************************)
\* values that sprintf formats as more than 4 characters
LongRenderValues == {-32768, -17536, -1, 10000, 25714, 32767}

RenderValues == (0 .. 9999) \cup LongRenderValues

OldRpmSamples == {0, 120}

CharSamples == {48, 52, 57, 45, 32, 120, 46, 1}

\* "1234567", a string that overruns DisplayBM by 3 bytes
LongString == << 49, 50, 51, 52, 53, 54, 55 >>

StringSamples ==
  UNION { [1 .. n -> CharSamples] : n \in 1 .. DisplaySize }
    \cup { SprintfD4(v) : v \in LongRenderValues }
    \cup { LongString }

InitRender ==
  /\ clock = 1000
  /\ timestamps = ZeroStamps
  /\ curTimestampPos = 0
  /\ lastStamp = 0
  /\ intsEnabled = TRUE
  /\ \/ /\ pc = "update"
        /\ rpm \in RenderValues
        /\ oldRpm \in OldRpmSamples
        /\ displayString = DashString
     \/ /\ pc = "call"
        /\ rpm = 0
        /\ oldRpm = 0
        /\ displayString \in StringSamples
  /\ curTime = 0
  /\ ts = ZeroStamps
  /\ ci = 0
  /\ scan = ScanStart
  /\ DisplayBM = SetupDigits(DashString, [k \in 0 .. (DisplaySize - 1) |-> 0])
  /\ overrun = 0
  /\ layout = LayoutUnseen
  /\ curCharacter = 0
  /\ emitted = NoEmission
  /\ serialOut = << >>
  /\ renders = 0
  /\ ticks = 0
  /\ passes = 0
  /\ edges = 0
  /\ edgeTimes = << >>

NextRender ==
  \/ UpdateDisplay
  \/ SetupDigitsCall
  \/ OverrunStore
  \/ rpmInterrupt(MaxRenderEdges)
  \/ DisplayDigits

SpecRender == InitRender /\ [][NextRender]_vars

(***************************************************************************)
(* The program with the shaft at rest: setup() has run, no edge has        *)
(* arrived, MAX_STAMP_AGE milliseconds have gone by, and __curCharacter    *)
(* holds any byte, as the passes made so far have left it.  The loop runs  *)
(* long enough from there for the byte to overflow; ticks and passes count *)
(* from this state.  Every rpm computed is 0, so no render stores past     *)
(* DisplayBM[3].                                                           *)
(***************************************************************************)
InitDisplay ==
  /\ clock = MAX_STAMP_AGE
  /\ timestamps = ZeroStamps
  /\ curTimestampPos = 0
  /\ lastStamp = 0
  /\ intsEnabled = TRUE
  /\ pc = "read"
  /\ curTime = 0
  /\ ts = ZeroStamps
  /\ ci = 0
  /\ scan = ScanStart
  /\ rpm = 0
  /\ oldRpm = 0
  /\ displayString = DashString
  /\ DisplayBM = SetupDigits(DashString, [k \in 0 .. (DisplaySize - 1) |-> 0])
  /\ overrun = 0
  /\ layout = LayoutUnseen
  /\ curCharacter \in 0 .. (ByteRange - 1)
  /\ emitted = NoEmission
  /\ serialOut = << >>
  /\ renders = 0
  /\ ticks = 0
  /\ passes = 0
  /\ edges = 0
  /\ edgeTimes = << >>

NextDisplay ==
  \/ AdvanceClock
  \/ MainLoop(MaxTicks)

SpecDisplay == InitDisplay /\ [][NextDisplay]_vars

(***************************************************************************)
(* calculateRPM around the wrap of the millisecond counter: the ring holds *)
(* five edges recorded shortly before and shortly after the counter        *)
(* returned to 0, in the order of their recording, and the clock is read   *)
(* after the last of them.  Times are offsets from the wrap, in ms.        *)
(***************************************************************************)
WrapOffsets == {-3000, -2000, -1500, -1000, -500, 500, 1000, 1500, 2000}

NowOffsets == {500, 2000, 4000, 5499}

\* the reading of the counter at an offset from its wrap
StampAt(o) == o % Modulus

WrapWindows ==
  { f \in [Slots -> WrapOffsets] :
      \A i \in 0 .. (MAX_STAMPS - 2) : f[i] <= f[i + 1] }

InitWrap ==
  /\ \E f \in WrapWindows, r \in Slots, n \in NowOffsets :
       /\ f[MAX_STAMPS - 1] <= n
       /\ clock = StampAt(n)
       /\ timestamps = [i \in Slots |-> StampAt(Rotate(f, r)[i])]
       /\ curTimestampPos = (MAX_STAMPS - r) % MAX_STAMPS
       /\ lastStamp = StampAt(f[MAX_STAMPS - 1])
  /\ intsEnabled = TRUE
  /\ pc = "read"
  /\ curTime = 0
  /\ ts = ZeroStamps
  /\ ci = 0
  /\ scan = ScanStart
  /\ rpm = 0
  /\ oldRpm = 0
  /\ displayString = DashString
  /\ DisplayBM = SetupDigits(DashString, [k \in 0 .. (DisplaySize - 1) |-> 0])
  /\ overrun = 0
  /\ layout = LayoutUnseen
  /\ curCharacter = 0
  /\ emitted = NoEmission
  /\ serialOut = << >>
  /\ renders = 0
  /\ ticks = 0
  /\ passes = 0
  /\ edges = 0
  /\ edgeTimes = << >>

\* One pass of the loop; no rpm computed from these rings has more than 4
\* characters, so no store past DisplayBM[3] follows the render.
NextWrap == MainLoop(1)

SpecWrap == InitWrap /\ [][NextWrap]_vars

(***************************************************************************)
(* The ring on its own: edges arrive at any reading of the clock, more of  *)
(* them than the ring has slots; the main context stays at the head of the *)
(* loop.                                                                   *)
(***************************************************************************)
NextRing ==
  \/ AttachInterrupt
  \/ Setup
  \/ rpmInterrupt(MaxRingEdges)
  \/ AdvanceClock

SpecRing == Init /\ [][NextRing]_vars

(***************************************************************************)
(* Properties.                                                             *)
(***************************************************************************)
\* The distance between two readings of the millisecond counter, on the
\* counter's modular domain.
Age(now, t) ==
  LET d == (now - t) % Modulus
  IN IF d <= Modulus - d THEN d ELSE Modulus - d

FreshSlots(copy, now) == { i \in Slots : Age(now, copy[i]) < MAX_STAMP_AGE }

\* calculateRPM returns in this step
Returns == pc = "unlock" /\ pc' = "update"

\* C1: under every interleaving of rpmInterrupt with the main loop, the
\* slots copied so far equal the ring as it is now, and the finished copy
\* equals the ring: no slot of the copy is older than an edge that another
\* slot of the copy has seen.
CopyIsSnapshot ==
  /\ pc = "copy" => \A j \in Slots : j < ci => ts[j] = timestamps[j]
  /\ pc \in {"scan", "unlock"} => ts = timestamps

\* C1 witness: a finished copy that holds an edge recorded after the call
\* of calculateRPM read the clock.
CopyIsSnapshotReached ==
  /\ pc = "scan"
  /\ ts = timestamps
  /\ \E i \in Slots : ts[i] > curTime

MillisPerMinute == 1000 * Sixty

QuotientNum(sc) == (sc.datapoints - 1) * MillisPerMinute

QuotientDen(sc) == sc.high - sc.low

HasInterval(sc) == sc.datapoints >= 2 /\ sc.high > sc.low

ExampleRing == [i \in Slots |-> 1000 + 500 * i]

\* C2 as claimed: with at least 2 valid slots and high > low, calculateRPM
\* returns the integer nearest to (count - 1) * 60000 / (high - low).
RpmIsRounded ==
  [][Returns /\ HasInterval(scan)
       => rpm' = (2 * QuotientNum(scan) + QuotientDen(scan))
                   \div (2 * QuotientDen(scan))]_vars

\* C2 amended: with at least 2 valid slots, high > low and a quotient
\* q = (count - 1) * 60000 / (high - low) that fits an int, calculateRPM
\* returns q truncated toward zero, as single precision arithmetic gives
\* it: the integer part of q, or q - 1 for some q that are integers; the
\* ring {1000, 1500, 2000, 2500, 3000} read at 3000 gives 120.
RpmIsTruncated ==
  [][Returns /\ HasInterval(scan)
       /\ QuotientNum(scan) \div QuotientDen(scan) <= INT_MAX
       => LET q == QuotientNum(scan) \div QuotientDen(scan)
          IN /\ IF QuotientNum(scan) % QuotientDen(scan) = 0
                THEN rpm' \in {q - 1, q}
                ELSE rpm' = q
             /\ (ts = ExampleRing /\ curTime = 3000) => rpm' = 120]_vars

\* C2 witness: calculateRPM has returned 120 for the example ring.
RpmIsTruncatedReached ==
  /\ pc = "update"
  /\ timestamps = ExampleRing
  /\ clock = 3000
  /\ rpm = 120

\* C3: when fewer than 2 slots of the copy are younger than
\* MAX_STAMP_AGE, calculateRPM returns 0, for every ring and every clock
\* reading.
FewFreshSlotsGiveZero ==
  [][Returns /\ Cardinality(FreshSlots(ts, curTime)) < 2 => rpm' = 0]_vars

\* C3 witness: calculateRPM has returned 0 for a ring with exactly one
\* fresh slot.
FewFreshSlotsGiveZeroReached ==
  /\ pc = "update"
  /\ Cardinality(FreshSlots(timestamps, clock)) = 1
  /\ rpm = 0

\* C4 as claimed: when at least 2 slots are valid and all valid slots hold
\* the same timestamp, calculateRPM returns 0 and divides by no zero.
EqualStampsGiveZero ==
  [][Returns /\ Cardinality(FreshSlots(ts, curTime)) >= 2
       /\ (\A i, j \in FreshSlots(ts, curTime) : ts[i] = ts[j])
       => /\ rpm' = 0
          /\ ~ (scan.datapoints > 1 /\ TimeDiff(scan) = 0)]_vars

\* C5: a call of calculateRPM whose clock reading is MAX_STAMP_AGE or more
\* after every timestamp of the copy returns 0.
AgedOutGivesZero ==
  [][Returns /\ (\A i \in Slots : curTime - ts[i] >= MAX_STAMP_AGE)
       => rpm' = 0]_vars

\* C5 witness: calculateRPM has returned 0 for a ring that holds five
\* recorded edges, the latest of them MAX_STAMP_AGE old or older.
AgedOutGivesZeroReached ==
  /\ pc = "update"
  /\ timestamps[0] > 0
  /\ \E i \in Slots : timestamps[i] > timestamps[0]
  /\ \A i \in Slots : clock - timestamps[i] >= MAX_STAMP_AGE
  /\ rpm = 0

\* C6 as claimed: after k < MAX_STAMPS edges since startup the scan counts
\* at most k slots, the slots never written not being valid.
UnwrittenSlotsNotCounted ==
  (pc = "unlock" /\ edges < MAX_STAMPS) => scan.datapoints <= edges

\* C7 as claimed: the n-th call of DisplayDigits since startup, counted
\* from 0, emits the bitmap and the position of DisplayBM[n mod 4], with no
\* position skipped or repeated.
TicksVisitPositionsInOrder ==
  ticks > 0 =>
    /\ emitted.index = (ticks - 1) % DisplaySize
    /\ emitted.pos = DisplaySize - emitted.index
    /\ pc = "read" => emitted.bm = DisplayBM[emitted.index]

\* C8: the if statement of loop renders and prints exactly when the rpm
\* just computed differs from oldRpm, and then takes it over as oldRpm;
\* otherwise it leaves DisplayBM and oldRpm alone and prints nothing.  No
\* other step of a pass renders or prints.
RenderIffChanged ==
  [][/\ (pc = "update" /\ pc' \in {"store", "tick"}) =>
          IF rpm # oldRpm
          THEN /\ renders' = renders + 1
               /\ serialOut' = Append(serialOut, rpm)
               /\ oldRpm' = rpm
          ELSE UNCHANGED << DisplayBM, oldRpm, serialOut, renders >>
     /\ ~ (pc = "update" /\ pc' \in {"store", "tick"}) =>
          /\ renders' <= renders
          /\ Len(serialOut') <= Len(serialOut)
          /\ oldRpm' = oldRpm
          /\ ~ (pc = "begin" /\ pc' = "read") => DisplayBM' = DisplayBM]_vars

\* C8 witness: the second pass has computed the rpm on display, which is
\* not 0, and has gone on to the strobe without rendering.
RenderIffChangedReached ==
  /\ pc = "tick"
  /\ ticks = 1
  /\ rpm = oldRpm
  /\ oldRpm # 0
  /\ renders = 0
  /\ serialOut = << >>

IsGlyphKey(c) ==
  \E k \in 1 .. (Len(CharBitMap) \div 2 - 1) : CharBitMap[2 * k - 1] = c

\* the bitmap of ' ': no segment lit
BlankBitmap == 255

\* C9 as claimed: after SetupDigits, the slot of every character that is
\* no key of CharBitMap holds the blank pattern.
UnknownCharactersRenderBlank ==
  pc = "tick" =>
    \A k \in 1 .. Len(displayString) :
      (k <= DisplaySize /\ ~ IsGlyphKey(displayString[k]))
        => DisplayBM[k - 1] = BlankBitmap

\* the bitmaps of '0' .. '9'
DigitGlyphs == << 192, 249, 164, 176, 153, 146, 130, 248, 128, 144 >>

\* C10: after loop rendered a value v in 0..9999, DisplayBM[i] is the
\* bitmap of the decimal digit of weight 10^(3-i) of v; 42 gives the
\* bitmaps of '0', '0', '4', '2'.
RenderedDigitsMatchValue ==
  (pc = "tick" /\ renders = 1 /\ oldRpm \in 0 .. 9999) =>
    /\ \A i \in 0 .. (DisplaySize - 1) :
         DisplayBM[i] = DigitGlyphs[((oldRpm \div 10^(3 - i)) % 10) + 1]
    /\ oldRpm = 42 =>
         DisplayBM = [i \in 0 .. (DisplaySize - 1) |->
                        << 192, 192, 153, 164 >>[i + 1]]

\* C10 witness: 42 has been rendered.
RenderedDigitsMatchValueReached ==
  /\ pc = "tick"
  /\ renders = 1
  /\ oldRpm = 42
  /\ DisplayBM[2] = 153

\* The edge, counted from 1, whose timestamp slot i holds after k edges: the
\* last edge j <= k with (j - 1) mod MAX_STAMPS = i; 0 when there is none.
EdgeInSlot(i, k) ==
  LET js == { j \in 1 .. k : (j - 1) % MAX_STAMPS = i }
  IN IF js = {} THEN 0 ELSE CHOOSE j \in js : \A m \in js : m <= j

InPass ==
  pc \in {"lock", "copy", "scan", "unlock", "update", "store", "tick"}

\* The step the main context is at can be taken: its position is one of
\* the loop, the copy index is a slot, and the scan and the conversion have
\* an outcome.
LoopStepReady ==
  /\ pc \in {"read"} \cup {"lock", "copy", "scan", "unlock", "update",
                          "store", "tick"}
  /\ pc = "copy" => ci \in Slots
  /\ pc = "store" => overrun < SetupDigitsOverrun(displayString)
  /\ pc = "scan" => ScanOutcomes(ts, curTime) # {}
  /\ pc = "unlock" => RpmOutcomes(scan) # {}

\* C12: every pass of the while loop calls DisplayDigits exactly once,
\* whether or not the rpm changed: when the n-th call of calculateRPM
\* begins, n - 1 calls of DisplayDigits have been made.  A pass renders at
\* most once, in the step before its call of DisplayDigits.  No step of the
\* loop waits: once setup has run, the main context can always take its
\* next step, whatever the interrupt and the clock have done.
OneTickPerPass ==
  /\ [](passes = ticks + (IF InPass THEN 1 ELSE 0))
  /\ [](renders <= 1)
  /\ [](pc \notin {"setup", "begin"} => LoopStepReady)
  /\ [][renders' > renders
         => pc = "update" /\ pc' \in {"store", "tick"} /\ ticks' = ticks]_vars
  /\ [][ticks' # ticks
         => pc = "tick" /\ ticks' = ticks + 1 /\ renders' = renders]_vars

\* C12 witness: two passes have ended, the first rendered, the second did
\* not; each called DisplayDigits.
OneTickPerPassReached ==
  /\ pc = "read"
  /\ passes = 2
  /\ ticks = 2
  /\ renders = 0
  /\ oldRpm # 0

MinOf(S) == CHOOSE x \in S : \A y \in S : x <= y

MaxOf(S) == CHOOSE x \in S : \A y \in S : y <= x

FreshStamps(copy, now) == { copy[i] : i \in FreshSlots(copy, now) }

\* C13 as claimed: after the scan, datapoints is the number of fresh slots
\* of the copy, and low and high are the least and the greatest timestamp
\* of the fresh slots, in whatever order the slots lie in the ring and also
\* when a fresh slot holds the timestamp 0.
ScanFindsExtremes ==
  (pc = "unlock" /\ FreshSlots(ts, curTime) # {}) =>
    /\ scan.datapoints = Cardinality(FreshSlots(ts, curTime))
    /\ scan.low = MinOf(FreshStamps(ts, curTime))
    /\ scan.high = MaxOf(FreshStamps(ts, curTime))

\* the time from the recording of t to the clock reading now, the counter
\* having wrapped at most once in between
Elapsed(now, t) == (now - t) % Modulus

\* the slots of the copy recorded before the counter wrapped, less than
\* MAX_STAMP_AGE before the clock reading
WrappedFreshSlots(copy, now) ==
  { i \in Slots : now < copy[i] /\ Elapsed(now, copy[i]) < MAX_STAMP_AGE }

\* C14: for a timestamp t recorded d < MAX_STAMP_AGE ms before the clock
\* reading, the counter having wrapped in between, the age test computes
\* the age d, without leaving the range of a long, and judges the slot
\* fresh: the scan counts it.
AgeTestToleratesWrap ==
  /\ pc \in {"scan", "unlock"} =>
       \A i \in WrappedFreshSlots(ts, curTime) :
         /\ LongInRange(ToLong(curTime) - ToLong(ts[i]))
         /\ tsDiffOutcomes(curTime, ts[i]) = {Elapsed(curTime, ts[i])}
         /\ \A diff \in tsDiffOutcomes(curTime, ts[i]) : IsFresh(diff)
  /\ pc = "unlock" =>
       scan.datapoints =
         Cardinality({ i \in Slots :
                         Elapsed(curTime, ts[i]) < MAX_STAMP_AGE })

\* C14 witness: the scan has counted five slots, three of them recorded
\* before the wrap.
AgeTestToleratesWrapReached ==
  /\ pc = "unlock"
  /\ Cardinality(WrappedFreshSlots(ts, curTime)) = 3
  /\ scan.datapoints = MAX_STAMPS

\* a distance in time that takes every sampled reading past the wrap
WrapShift == 2 * MAX_STAMP_AGE

Shifted(t) == (t + WrapShift) % Modulus

\* fresh slots lie on both sides of the wrap
Straddles(copy, now) ==
  /\ WrappedFreshSlots(copy, now) # {}
  /\ \E i \in Slots :
       copy[i] <= now /\ Elapsed(now, copy[i]) < MAX_STAMP_AGE

\* the times from the fresh edges to the clock reading
FreshElapsed(copy, now) ==
  { Elapsed(now, copy[i]) : i \in FreshSlots(copy, now) }

\* C15 as claimed: when the fresh timestamps straddle the wrap of the
\* counter, the interval used for the rpm is the time from the oldest to
\* the newest fresh edge, and the rpm returned is the rpm returned for the
\* same edges and clock reading moved away from the wrap.
IntervalToleratesWrap ==
  [][(Returns /\ Straddles(ts, curTime) /\ scan.datapoints > 1)
       => /\ TimeDiff(scan) = MaxOf(FreshElapsed(ts, curTime))
                                - MinOf(FreshElapsed(ts, curTime))
          /\ rpm' \in calculateRPM([i \in Slots |-> Shifted(ts[i])],
                                   Shifted(curTime))]_vars

\* char displayString[5]
DisplayStringSize == 5

\* C16 as claimed: for every rpm that calculateRPM returns for a ring of
\* edges at least 1 ms apart, the render step formats a string of exactly
\* 4 characters, which with its terminator fits displayString, and
\* SetupDigits stores exactly DisplayBM[0..3] and nothing past DisplayBM[3].
RenderFitsBuffers ==
  (/\ pc = "tick"
   /\ renders = 1
   /\ \A i, j \in Slots : i # j => timestamps[i] # timestamps[j])
    => /\ Len(displayString) = DisplaySize
       /\ Len(displayString) + 1 <= DisplayStringSize
       /\ overrun = 0

\* C17 as claimed: at every call of DisplayDigits, the rpm that
\* calculateRPM returned in the same pass equals oldRpm, and for an rpm of
\* at most 4 digits DisplayBM holds the bitmaps of its 4 zero-padded
\* decimal digits: those of "0000" when the rpm is 0, from the first pass
\* after startup on.  Stated for the calls made once the clock has reached
\* MAX_STAMP_AGE, when the zero fill of the ring counts as fresh no more.
DisplayShowsRpm ==
  (pc = "tick" /\ rpm \in 0 .. 9999 /\ clock >= MAX_STAMP_AGE) =>
    /\ rpm = oldRpm
    /\ \A i \in 0 .. (DisplaySize - 1) :
         DisplayBM[i] = DigitGlyphs[((rpm \div 10^(3 - i)) % 10) + 1]

\* C18 as claimed: in every call of calculateRPM and under every
\* interleaving with rpmInterrupt, no timestamp of the copy is later than
\* the clock reading curTime of the call (the counter not having wrapped).
CopyNotAfterClockReading ==
  pc \in {"scan", "unlock"} => \A i \in Slots : ts[i] <= curTime

\* C19 as claimed: every step that is not a call of rpmInterrupt, so every
\* step of the main context, the passes of the copy loop included, leaves
\* timestamps, curTimestampPos and lastStamp unchanged, and every call of
\* rpmInterrupt leaves DisplayBM, __curCharacter and oldRpm unchanged.
SingleOwnership ==
  [][/\ edges' = edges
          => UNCHANGED << timestamps, curTimestampPos, lastStamp >>
     /\ edges' # edges
          => UNCHANGED << DisplayBM, curCharacter, oldRpm >>]_vars

\* the digit-select code of each index of DisplayBM
SelectOfIndex == << 8, 4, 2, 1 >>

\* C20: every call of DisplayDigits shifts out, with DisplayBM[index], a
\* digit-select code that is one of 0x01, 0x02, 0x04, 0x08; index 0 has
\* the code 0x08, 1 has 0x04, 2 has 0x02 and 3 has 0x01, so different
\* indexes have different codes; the position handed to DisplayDigitBitmap
\* is one of 1 .. 4, so the default branch of its switch is never taken.
SelectCodesOneHot ==
  /\ ticks > 0 =>
       /\ emitted.select \in {1, 2, 4, 8}
       /\ emitted.select = SelectOfIndex[emitted.index + 1]
       /\ emitted.pos \in 1 .. DisplaySize
  /\ \A a, b \in 0 .. (DisplaySize - 1) :
       a # b => SelectCode(DisplaySize - a) # SelectCode(DisplaySize - b)

\* C20 witness: the call made when __curCharacter was back at 0 after its
\* overflow, which selected the digit of index 0.
SelectCodesOneHotReached ==
  /\ ticks = ByteRange + 1
  /\ curCharacter = 1
  /\ emitted.index = 0
  /\ emitted.select = 8

=============================================================================
